---------------------------- MODULE Spec2Model ----------------------------
(***************************************************************************)
(* A model of rack (src/rack/__init__.py, src/rack/output.py,              *)
(* src/rack/config.py): the parsers git_status_files and git_diff, the     *)
(* lru_cache in front of them, and main's selection of repositories and    *)
(* dispatch of the action.                                                 *)
(*                                                                         *)
(* Text is a sequence of one-character strings, so that strip, split,      *)
(* startswith and int act on it as Python's str methods do.                *)
(***************************************************************************)
EXTENDS Integers, Sequences, FiniteSets, TLC

VARIABLES
    arg,        \* the input handed to the parser under test
    ret,        \* what the parser gave back
    called,     \* whether the parser has been applied
    ns,         \* main: the parsed command line (argparse's namespace)
    world,      \* main: the working directory's entries, what git says in
                \* each, the config file, and where $HOME/projects is
    pc,         \* main: "start", "match" (before the match statement),
                \* "stopped" (over before the match statement), "done" (over
                \* in the match statement)
    repos,      \* main: the selected repositories
    directories,\* main: the rows of the list action
    cwd,        \* the process's current directory: 0 the working directory,
                \* n the entry n of it
    cache,      \* git_status_files' lru_cache: <<key, value>>, oldest first
    rcache,     \* get_list_remotes' lru_cache: the paths it holds
    invoked,    \* the external commands run so far: <<command, entry>>
    results,    \* the action's result for each repository it was applied to
    failures,   \* the diff-stat lines that failed to parse so far
    outcome,    \* how main ended
    hist,       \* for each key git_status_files was called with: how often
                \* its commands ran, whether a call has returned normally,
                \* what the first such call returned, and how often the
                \* commands ran again after it
    last,       \* the latest call of git_status_files
    pass        \* the caller of git_status_files: the pass over the
                \* repositories it is in, its place and its flags

pvars == <<arg, ret, called>>
mvars == <<ns, world, pc, repos, directories, cwd, cache, rcache, invoked,
           results, failures, outcome>>
hvars == <<hist, last, pass>>
vars == <<pvars, mvars, hvars>>

(***************************************************************************)
(* Bounds of the model.                                                    *)
(***************************************************************************)
MaxStatusLines == 2
MaxStatLines == 2
MaxSections == 2
MaxBodyLines == 2
MaxEntries == 2
MaxCacheRepos == 2
MaxPasses == 2
MaxChanges == 1

\* the one element of a singleton.  Only({F(x) : x \in {e}}) is F(e) with e
\* computed once.
Only(S) == CHOOSE r \in S : TRUE

(***************************************************************************)
(* Python str methods.                                                     *)
(***************************************************************************)
IsSpace(c) == c = " "

Digits == {"0", "1", "2", "3", "4", "5", "6", "7", "8", "9"}

DigitVal(c) ==
    CASE c = "0" -> 0 [] c = "1" -> 1 [] c = "2" -> 2 [] c = "3" -> 3
      [] c = "4" -> 4 [] c = "5" -> 5 [] c = "6" -> 6 [] c = "7" -> 7
      [] c = "8" -> 8 [] c = "9" -> 9

\* str.lower() on one character (the letters the model's lines use)
LowerChar(c) ==
    CASE c = "B" -> "b" [] c = "I" -> "i" [] c = "N" -> "n" [] c = "M" -> "m"
      [] c = "A" -> "a" [] c = "D" -> "d" [] OTHER -> c

Lower(s) == [k \in 1..Len(s) |-> LowerChar(s[k])]

RECURSIVE LStrip(_)
LStrip(s) == IF s # <<>> /\ IsSpace(Head(s)) THEN LStrip(Tail(s)) ELSE s

RECURSIVE RStrip(_)
RStrip(s) ==
    IF s # <<>> /\ IsSpace(s[Len(s)]) THEN RStrip(SubSeq(s, 1, Len(s) - 1)) ELSE s

\* str.strip()
Strip(s) == RStrip(LStrip(s))

\* str.startswith(p)
StartsWith(s, p) == Len(s) >= Len(p) /\ SubSeq(s, 1, Len(p)) = p

\* c in s
Contains(s, c) == \E k \in 1..Len(s) : s[k] = c

\* the index of the first c in s, 0 when there is none
RECURSIVE FirstIndex(_, _, _)
FirstIndex(s, c, k) ==
    IF k > Len(s) THEN 0 ELSE IF s[k] = c THEN k ELSE FirstIndex(s, c, k + 1)

\* str.split(c): every occurrence of c separates, empty fields are kept
RECURSIVE Split(_, _)
Split(s, c) ==
    LET k == FirstIndex(s, c, 1)
    IN  IF k = 0 THEN <<s>>
        ELSE <<SubSeq(s, 1, k - 1)>> \o Split(SubSeq(s, k + 1, Len(s)), c)

\* str.split(c, n): at most n splits, the rest of the text is the last field
RECURSIVE SplitN(_, _, _)
SplitN(s, c, n) ==
    LET k == FirstIndex(s, c, 1)
    IN  IF n = 0 \/ k = 0 THEN <<s>>
        ELSE <<SubSeq(s, 1, k - 1)>> \o SplitN(SubSeq(s, k + 1, Len(s)), c, n - 1)

RECURSIVE DigitsValue(_, _)
DigitsValue(s, acc) ==
    IF s = <<>> THEN acc ELSE DigitsValue(Tail(s), 10 * acc + DigitVal(Head(s)))

\* int(s): surrounding whitespace dropped, an optional sign, then digits;
\* anything else is a ValueError (ok = FALSE)
PyInt(s) ==
    LET t == Strip(s)
        signed == t # <<>> /\ Head(t) \in {"+", "-"}
        d == IF signed THEN Tail(t) ELSE t
    IN  IF d # <<>> /\ \A k \in 1..Len(d) : d[k] \in Digits
        THEN [ok |-> TRUE,
              val |-> IF signed /\ Head(t) = "-" THEN 0 - DigitsValue(d, 0)
                      ELSE DigitsValue(d, 0)]
        ELSE [ok |-> FALSE, val |-> 0]

(***************************************************************************)
(* dict: a function from keys to values; d[k] = v adds or overwrites.      *)
(***************************************************************************)
EmptyDict == [k \in {} |-> 0]

DictSet(d, k, v) == [x \in (DOMAIN d) \cup {k} |-> IF x = k THEN v ELSE d[x]]

DictGet(d, k, default) == IF k \in DOMAIN d THEN d[k] ELSE default

(***************************************************************************)
(* A line delta: an integer, or float("NaN").                              *)
(***************************************************************************)
IntDelta(n) == [nan |-> FALSE, n |-> n]
NaN == [nan |-> TRUE, n |-> 0]


(***************************************************************************)
(* VerbosityLogger.error(self, verbosity, msg, *args, **kwargs): a call    *)
(* that gives fewer than two positional arguments leaves msg unbound and   *)
(* Python raises TypeError before the body runs.  npos is the number of    *)
(* positional arguments of the call.                                       *)
(***************************************************************************)
VerbosityLoggerError(npos) == IF npos < 2 THEN "TypeError" ELSE "none"

(***************************************************************************)
(* error_recovery's closure error(msg, exception): logger.error(msg),      *)
(* logger.exception(exception) (logging.Logger.exception calls             *)
(* self.error(msg, exc_info=True)), then must_exit = True under debug.     *)
(* It returns None, so its caller's "if not recover(...)" always prints.   *)
(***************************************************************************)
RecoverError(debug, hasException) ==
    LET e1 == VerbosityLoggerError(1)
        e2 == IF hasException THEN VerbosityLoggerError(1) ELSE "none"
    IN  IF e1 # "none" THEN [exc |-> e1, logged |-> 0, must_exit |-> FALSE]
        ELSE IF e2 # "none" THEN [exc |-> e2, logged |-> 1, must_exit |-> FALSE]
        ELSE [exc |-> "none", logged |-> 1, must_exit |-> debug]

Bin == <<"b", "i", "n">>

\* the binary branch's mistake of subtracting the new size from the old
BinDeltaSwapped(toks) == PyInt(toks[2]).val - PyInt(toks[4]).val

\* _, old_size, _, new_size, _ = ...; lc = int(new_size) - int(old_size)
BinDelta(toks) == PyInt(toks[4]).val - PyInt(toks[2]).val

(***************************************************************************)
(* git_status_files, the body of the loop over the diff-stat lines: line   *)
(* number k of the output, st the parse so far.                            *)
(*   st.diff_stat  the dict being filled                                   *)
(*   st.exc        the exception that ended the parse, "none" while going  *)
(*   st.parsed     the lines whose change field was handed to the parser   *)
(*   st.failed     the lines whose change field raised ValueError          *)
(*   st.logged     messages the logger accepted                            *)
(***************************************************************************)
StatLineStep(st, line, k, debug) ==
    IF ~Contains(line, "|") THEN st
    ELSE
    LET parts == Split(line, "|")
    IN  IF Len(parts) # 2 THEN st   \* the unpacking raises ValueError: continue
        ELSE
        LET file_path == parts[1]
            changes == parts[2]
            toks == Split(Strip(changes), " ")
            line_status == toks[1]
            isbin == StartsWith(Lower(line_status), Bin)
            ok == IF isbin
                  THEN Len(toks) = 5 /\ PyInt(toks[4]).ok /\ PyInt(toks[2]).ok
                  ELSE PyInt(line_status).ok
            lc == IF isbin THEN BinDelta(toks) ELSE PyInt(line_status).val
            rec == RecoverError(debug, TRUE)
            seen == [st EXCEPT !.parsed = @ \cup {k}]
        IN  IF ok
            THEN [seen EXCEPT !.diff_stat = DictSet(@, Strip(file_path), IntDelta(lc))]
            ELSE IF rec.exc # "none"
            THEN [seen EXCEPT !.failed = @ \cup {k}, !.exc = rec.exc,
                              !.logged = @ + rec.logged]
            ELSE IF rec.must_exit
            THEN \* the with block ends: sys.exit(1).  The binary branch has
                 \* stored its NaN before leaving the block, the other has not.
                 [seen EXCEPT !.failed = @ \cup {k}, !.exc = "SystemExit",
                              !.logged = @ + rec.logged,
                              !.diff_stat = IF isbin
                                            THEN DictSet(@, Strip(file_path), NaN)
                                            ELSE @]
            ELSE [seen EXCEPT !.failed = @ \cup {k}, !.logged = @ + rec.logged,
                              !.diff_stat = DictSet(@, Strip(file_path), NaN)]

\* the loop: it stops at the first exception
RECURSIVE StatLoop(_, _, _, _)
StatLoop(st, lines, k, debug) ==
    IF k > Len(lines) \/ st.exc # "none" THEN st
    ELSE Only({ StatLoop(s2, lines, k + 1, debug) :
                   s2 \in {StatLineStep(st, lines[k], k, debug)} })

StatStart ==
    [diff_stat |-> EmptyDict, exc |-> "none", parsed |-> {}, failed |-> {},
     logged |-> 0]

Untracked == <<"?", "?">>

\* the list comprehension over the short-status lines, from line k on
RECURSIVE StatusRecords(_, _, _, _)
StatusRecords(lines, k, diff_stat, show_untracked) ==
    IF k > Len(lines) THEN <<>>
    ELSE LET sf == SplitN(Strip(lines[k]), " ", 1)
             status == sf[1]
             file_path == sf[2]
             rest == StatusRecords(lines, k + 1, diff_stat, show_untracked)
         IN  IF show_untracked \/ status # Untracked
             THEN <<[status |-> IF status = Untracked THEN <<"U">> ELSE status,
                     file_path |-> file_path,
                     delta |-> DictGet(diff_stat, file_path, IntDelta(0))]>> \o rest
             ELSE rest

(***************************************************************************)
(* git_status_files(repo_path, show_untracked, debug), uncached, on the    *)
(* outputs out of "git status --porcelain" and "git diff --stat".          *)
(***************************************************************************)
GitStatusFiles(out, show_untracked, debug) ==
    LET unpackable == \A k \in 1..Len(out.status_lines) :
                         Len(SplitN(Strip(out.status_lines[k]), " ", 1)) = 2
    IN  Only({ IF st.exc # "none"
               THEN st @@ [value |-> <<>>]
               ELSE IF out.status_rc # 0 THEN st @@ [value |-> <<>>]
               ELSE IF ~unpackable
               THEN [st EXCEPT !.exc = "ValueError"] @@ [value |-> <<>>]
               ELSE st @@ [value |-> StatusRecords(out.status_lines, 1, st.diff_stat,
                                                   show_untracked)] :
               st \in {IF out.stat_rc = 0
                       THEN StatLoop(StatStart, out.stat_lines, 1, debug)
                       ELSE StatStart} })

(***************************************************************************)
(* git_diff(repo_path), uncached, on the exit code rc and the output lines *)
(* of "git diff".  st.file_diffs is the dict being filled, st.current_file *)
(* the key of the open section (None before the first).                    *)
(***************************************************************************)
None == <<"N", "o", "n", "e">>

DiffGit == <<"d", "i", "f", "f", " ", "-", "-", "g", "i", "t">>

\* file_diffs[current_file].append((marker, line.split(" ", 1)[1].strip()))
DiffAppend(st, marker, line) ==
    LET sp == SplitN(line, " ", 1)
    IN  IF st.current_file \notin DOMAIN st.file_diffs
        THEN [st EXCEPT !.exc = "KeyError"]
        ELSE IF Len(sp) < 2 THEN [st EXCEPT !.exc = "IndexError"]
        ELSE [st EXCEPT !.file_diffs =
                 DictSet(@, st.current_file,
                         Append(@[st.current_file], <<marker, Strip(sp[2])>>))]

DiffLineStep(st, line) ==
    IF StartsWith(line, DiffGit)
    THEN LET sp == SplitN(line, " ", 3)
         IN  IF Len(sp) < 3 THEN [st EXCEPT !.exc = "IndexError"]
             ELSE [st EXCEPT !.current_file = sp[3],
                             !.file_diffs = DictSet(@, sp[3], <<>>)]
    ELSE IF StartsWith(line, <<"@", "@">>) THEN DiffAppend(st, "@", line)
    ELSE IF StartsWith(line, <<"+", " ">>) THEN DiffAppend(st, "+", line)
    ELSE IF StartsWith(line, <<"-", " ">>) THEN DiffAppend(st, "-", line)
    ELSE st

RECURSIVE DiffLoop(_, _, _)
DiffLoop(st, lines, k) ==
    IF k > Len(lines) \/ st.exc # "none" THEN st
    ELSE Only({ DiffLoop(s2, lines, k + 1) : s2 \in {DiffLineStep(st, lines[k])} })

\* value is the dict, or the empty list that a failed "git diff" gives
GitDiff(rc, lines) ==
    IF rc # 0 THEN [exc |-> "none", value |-> EmptyDict]
    ELSE Only({ [exc |-> st.exc,
                 value |-> IF st.exc = "none" THEN st.file_diffs ELSE EmptyDict] :
                st \in {DiffLoop([file_diffs |-> EmptyDict, current_file |-> None,
                                  exc |-> "none"], lines, 1)} })

(***************************************************************************)
(* The world main runs in.  The working directory holds the entries        *)
(* 1..MaxEntries; world.kind[e] is "repo" (a directory holding .git),      *)
(* "dir" (a directory without) or "file"; world.scen[e] is what git says   *)
(* there; world.has_repos and world.config_repos are the "repos" key of    *)
(* .rack.yaml; world.homeIsWd says whether $HOME/projects is the working   *)
(* directory (otherwise it holds none of the entries).                     *)
(***************************************************************************)
Entries == 1..MaxEntries

Scenarios == {"changed", "clean", "fail", "badstat"}

\* the outputs of "git status --porcelain" and "git diff --stat"
ScenarioOut(sc) ==
    CASE sc = "changed" ->
            [status_rc |-> 0, status_lines |-> << <<" ", "M", " ", "f">> >>,
             stat_rc |-> 0,
             stat_lines |-> << <<" ", "f", " ", "|", " ", "2", " ", "+", "-">> >>]
      [] sc = "badstat" ->
            [status_rc |-> 0, status_lines |-> << <<" ", "M", " ", "f">> >>,
             stat_rc |-> 0,
             stat_lines |->
                << <<" ", "f", " ", "|", " ", "U", "n", "m", "e", "r", "g", "e", "d">> >>]
      [] sc = "untracked" ->
            [status_rc |-> 0, status_lines |-> << <<"?", "?", " ", "g">> >>,
             stat_rc |-> 0, stat_lines |-> <<>>]
      [] sc = "clean" ->
            [status_rc |-> 0, status_lines |-> <<>>, stat_rc |-> 0, stat_lines |-> <<>>]
      [] sc = "fail" ->
            [status_rc |-> 1, status_lines |-> <<>>, stat_rc |-> 1, stat_lines |-> <<>>]

\* the exit code of any git command
ScenarioRc(sc) == IF sc = "fail" THEN 1 ELSE 0

\* the output lines of "git diff"
ScenarioDiffLines(sc) ==
    IF sc \in {"changed", "badstat"}
    THEN << DiffGit \o <<" ", "a", "/", "f", " ", "b", "/", "f">>,
            <<"-", "-", "-", " ", "a", "/", "f">>,
            <<"+", "+", "+", " ", "b", "/", "f">>,
            <<"@", "@", " ", "-", "1", " ", "+", "1", " ", "@", "@">>,
            <<"+", " ", "x">> >>
    ELSE <<>>

\* os.path.join(base, name): base is "abs" (the working directory given as
\* an absolute path), "rel" (given as ".") or "home" ($HOME/projects)
Join(base, name) == [base |-> base, name |-> name]

\* os.chdir(path) from the directory at
ChDir(at, path, w) ==
    LET found == CASE path.base = "abs" -> TRUE
                   [] path.base = "rel" -> at = 0
                   [] path.base = "home" -> w.homeIsWd
    IN  IF ~found THEN [exc |-> "FileNotFoundError", cwd |-> at]
        ELSE IF w.kind[path.name] = "file"
        THEN [exc |-> "NotADirectoryError", cwd |-> at]
        ELSE [exc |-> "none", cwd |-> path.name]

(***************************************************************************)
(* functools.lru_cache: @lru_cache without arguments keeps the 128 most    *)
(* recently used keys.                                                     *)
(***************************************************************************)
CacheMaxSize == 128

CacheIndex(c, key) ==
    IF \E i \in 1..Len(c) : c[i][1] = key
    THEN CHOOSE i \in 1..Len(c) : c[i][1] = key
    ELSE 0

\* a hit makes the entry the most recently used
CacheTouch(c, i) == SubSeq(c, 1, i - 1) \o SubSeq(c, i + 1, Len(c)) \o <<c[i]>>

\* a miss stores the result and drops the least recently used entry
CacheStore(c, key, value) ==
    LET c2 == Append(c, <<key, value>>)
    IN  IF Len(c2) > CacheMaxSize THEN Tail(c2) ELSE c2

(***************************************************************************)
(* The calls main makes.  m is the process so far: m.cwd, m.cache,         *)
(* m.rcache, m.invoked, m.failures (the diff-stat lines that failed to     *)
(* parse) and m.exc, the exception on its way out ("none" while running).  *)
(***************************************************************************)
\* git_status_files behind its lru_cache
StatusMiss(m, key, r) ==
    LET ran == [m EXCEPT !.invoked = @ \o << <<"status", key[1]>>,
                                             <<"diff --stat", key[1]>> >>,
                         !.failures = @ + Cardinality(r.failed)]
    IN  IF r.exc # "none"
        THEN [m |-> [ran EXCEPT !.exc = r.exc], value |-> <<>>]
        ELSE [m |-> [ran EXCEPT !.cache = CacheStore(@, key, r.value)],
              value |-> r.value]

\* a key that leaves show_untracked out
CacheKeyWithoutFlag(path, u, d) == <<path, FALSE, d>>

\* the key of a call: its arguments
CacheKey(path, u, d) == <<path, u, d>>

CachedStatus(m, w, path, u, d) ==
    LET key == CacheKey(path, u, d)
        i == CacheIndex(m.cache, key)
        cd == ChDir(m.cwd, path, w)
    IN  IF i > 0
        THEN [m |-> [m EXCEPT !.cache = CacheTouch(@, i)], value |-> m.cache[i][2]]
        ELSE IF cd.exc # "none"
        THEN [m |-> [m EXCEPT !.exc = cd.exc], value |-> <<>>]
        ELSE Only({ StatusMiss(m, key, r) :
                    r \in {GitStatusFiles(ScenarioOut(w.scen[path.name]), u, d)} })

\* git_diff: the directory is left again when the with block ends
GitDiffCall(m, w, path) ==
    LET cd == ChDir(m.cwd, path, w)
    IN  IF cd.exc # "none"
        THEN [m |-> [m EXCEPT !.exc = cd.exc], value |-> EmptyDict]
        ELSE Only({ [m |-> [m EXCEPT !.invoked = Append(@, <<"diff", path>>),
                                     !.exc = r.exc],
                     value |-> r.value] :
                    r \in {GitDiff(ScenarioRc(w.scen[path.name]),
                                   ScenarioDiffLines(w.scen[path.name]))} })

\* git_reset, git_pull, git_push: os.chdir(repo_path), run, True on exit
\* code 0.  The directory is not left again.
GitSimpleCall(m, w, path, cmd) ==
    LET cd == ChDir(m.cwd, path, w)
    IN  IF cd.exc # "none"
        THEN [m |-> [m EXCEPT !.exc = cd.exc], value |-> FALSE]
        ELSE [m |-> [m EXCEPT !.cwd = cd.cwd, !.invoked = Append(@, <<cmd, path>>)],
              value |-> ScenarioRc(w.scen[path.name]) = 0]

\* get_list_remotes behind its lru_cache; the directory is not left again
RemotesCall(m, w, path) ==
    LET cd == ChDir(m.cwd, path, w)
    IN  IF path \in m.rcache THEN m
        ELSE IF cd.exc # "none" THEN [m EXCEPT !.exc = cd.exc]
        ELSE [m EXCEPT !.cwd = cd.cwd, !.invoked = Append(@, <<"remote", path>>),
                       !.rcache = @ \cup {path}]

(***************************************************************************)
(* main, lines 345-378: the repositories to work on.                       *)
(***************************************************************************)
Running == [kind |-> "running", code |-> 0, exc |-> "none"]
Returned(code) == [kind |-> "return", code |-> code, exc |-> "none"]
Raised(exc) == [kind |-> "raise", code |-> 1, exc |-> exc]
Exited(code) == [kind |-> "exit", code |-> code, exc |-> "SystemExit"]

\* how main ends when the exception e is on its way out (a return of None
\* is exit code 0)
Finish(e) ==
    IF e = "none" THEN Returned(0)
    ELSE IF e = "SystemExit" THEN Exited(1)
    ELSE Raised(e)

\* the enumeration without its test for .git
ListReposUnfiltered(w) ==
    SelectSeq([e \in Entries |-> e], LAMBDA e : w.kind[e] \in {"repo", "dir"})

\* os.listdir(working_dir), filtered: the directories that hold .git
ListRepos(w) == SelectSeq([e \in Entries |-> e], LAMBDA e : w.kind[e] = "repo")

\* ... and the directories that do not
ListNonRepos(w) == SelectSeq([e \in Entries |-> e], LAMBDA e : w.kind[e] = "dir")

\* ns.repo, else the config file's repos, else the enumeration
ChosenRepos(n, w) ==
    IF n.repo # <<>> THEN n.repo
    ELSE IF w.has_repos THEN w.config_repos
    ELSE ListRepos(w)

\* -C: keep the repositories whose status has records
RECURSIVE ChangedLoop(_, _, _, _, _)
ChangedLoop(st, w, n, rs, k) ==
    IF k > Len(rs) \/ st.m.exc # "none" THEN st
    ELSE Only({ ChangedLoop(s2, w, n, rs, k + 1) :
                s2 \in { [m |-> c.m,
                          out |-> IF c.m.exc = "none" /\ c.value # <<>>
                                  THEN Append(st.out, rs[k]) ELSE st.out] :
                         c \in {CachedStatus(st.m, w, Join(n.working_dir, rs[k]),
                                             n.show_untracked, n.debug)} } })

\* -n: the first repository whose status under $HOME/projects has records
RECURSIVE NextLoop(_, _, _, _, _)
NextLoop(st, w, n, rs, k) ==
    IF k > Len(rs) \/ st.m.exc # "none" THEN st
    ELSE Only({ IF c.m.exc = "none" /\ c.value # <<>>
                THEN [m |-> c.m, out |-> <<rs[k]>>]
                ELSE NextLoop([m |-> c.m, out |-> st.out], w, n, rs, k + 1) :
                c \in {CachedStatus(st.m, w, Join("home", rs[k]),
                                    n.show_untracked, n.debug)} })

SelectRepos(m, w, n) ==
    Only({ IF n.next /\ c.m.exc = "none" THEN NextLoop(c, w, n, c.out, 1) ELSE c :
           c \in {IF n.changed
                  THEN ChangedLoop([m |-> m, out |-> <<>>], w, n, ChosenRepos(n, w), 1)
                  ELSE [m |-> m, out |-> ChosenRepos(n, w)]} })

(***************************************************************************)
(* main, lines 380-493: the loops of the actions.  st.m is the process,    *)
(* st.out the results so far: for each repository the loop has applied the *)
(* operation to, whether the result is non-empty (status, diff, list) or   *)
(* True (reset, pull, push).                                               *)
(***************************************************************************)
RECURSIVE StatusLoop(_, _, _, _, _)
StatusLoop(st, w, n, rs, k) ==
    IF k > Len(rs) \/ st.m.exc # "none" THEN st
    ELSE Only({ StatusLoop(s2, w, n, rs, k + 1) :
                s2 \in { [m |-> c.m,
                          out |-> IF c.m.exc = "none"
                                  THEN Append(st.out, [repo |-> rs[k],
                                                       full |-> c.value # <<>>])
                                  ELSE st.out] :
                         c \in {CachedStatus(st.m, w, Join(n.working_dir, rs[k]),
                                             n.show_untracked, n.debug)} } })

RECURSIVE DiffActionLoop(_, _, _, _, _)
DiffActionLoop(st, w, n, rs, k) ==
    IF k > Len(rs) \/ st.m.exc # "none" THEN st
    ELSE Only({ DiffActionLoop(s2, w, n, rs, k + 1) :
                s2 \in { [m |-> c.m,
                          out |-> IF c.m.exc = "none"
                                  THEN Append(st.out, [repo |-> rs[k],
                                                       full |-> c.value # EmptyDict])
                                  ELSE st.out] :
                         c \in {GitDiffCall(st.m, w, Join(n.working_dir, rs[k]))} } })

RECURSIVE SimpleLoop(_, _, _, _, _, _)
SimpleLoop(st, w, n, rs, k, cmd) ==
    IF k > Len(rs) \/ st.m.exc # "none" THEN st
    ELSE Only({ SimpleLoop(s2, w, n, rs, k + 1, cmd) :
                s2 \in { [m |-> c.m,
                          out |-> IF c.m.exc = "none"
                                  THEN Append(st.out, [repo |-> rs[k], full |-> c.value])
                                  ELSE st.out] :
                         c \in {GitSimpleCall(st.m, w, Join(n.working_dir, rs[k]), cmd)} } })

\* the rows of the list action
ListDirectories(n, w, rs) ==
    LET own == IF n.non_repos_only THEN <<>> ELSE rs
    IN  IF n.non_repos THEN SortSeq(own \o ListNonRepos(w), LAMBDA a, b : a < b)
        ELSE own

RECURSIVE ListLoop(_, _, _, _, _)
ListLoop(st, w, n, ds, k) ==
    IF k > Len(ds) \/ st.m.exc # "none" THEN st
    ELSE Only({ ListLoop(s2, w, n, ds, k + 1) :
                s2 \in { [m |-> c.m,
                          out |-> IF c.m.exc = "none"
                                  THEN Append(st.out, [repo |-> ds[k],
                                                       full |-> c.value # <<>>])
                                  ELSE st.out] :
                         c \in { IF n.status /\ m1.exc = "none"
                                 THEN CachedStatus(m1, w, Join(n.working_dir, ds[k]),
                                                   n.show_untracked, n.debug)
                                 ELSE [m |-> m1, value |-> <<>>] :
                                 m1 \in {IF n.show_remotes
                                         THEN RemotesCall(st.m, w,
                                                          Join(n.working_dir, ds[k]))
                                         ELSE st.m} } } })

\* the two checks of the list flags: logger.error(msg), then return 1
ListFlagsInvalid(n) ==
    \/ n.non_repos_only /\ ~n.non_repos
    \/ n.non_repos_only /\ n.status

(***************************************************************************)
(* Spec: one run of main.                                                  *)
(***************************************************************************)
RepoArg == <<MaxEntries, 1>>        \* -r: two entries, not in directory order
ConfigRepos == <<MaxEntries>>       \* .rack.yaml: repos: [the last entry]

ListActions ==
    [action : {"list"}, status : BOOLEAN, non_repos : BOOLEAN,
     non_repos_only : BOOLEAN, show_remotes : BOOLEAN]

OtherActions ==
    [action : {"status", "pull", "push", "diff", "reset", "branch", "none"},
     status : {FALSE}, non_repos : {FALSE}, non_repos_only : {FALSE},
     show_remotes : {FALSE}]

\* -u is left off here: SpecStatus and SpecCache vary it
CommonFlags ==
    [repo : {<<>>, RepoArg}, changed : BOOLEAN, next : BOOLEAN, debug : BOOLEAN,
     show_untracked : {FALSE}, working_dir : {"abs", "rel"}]

NsSet == {c @@ a : c \in CommonFlags, a \in ListActions \cup OtherActions}

\* git fails in whatever is not a repository
WorldSet ==
    { w \in [kind : [Entries -> {"repo", "dir", "file"}],
             scen : [Entries -> Scenarios],
             has_repos : BOOLEAN, config_repos : {ConfigRepos},
             homeIsWd : BOOLEAN] :
         \A e \in Entries : w.kind[e] # "repo" => w.scen[e] = "fail" }

NoRet == [exc |-> "none", value |-> <<>>]

ParserIdle == arg = <<>> /\ ret = NoRet /\ called = FALSE

MainIdle ==
    /\ ns = <<>>
    /\ world = <<>>
    /\ pc = "idle"
    /\ repos = <<>>
    /\ directories = <<>>
    /\ cwd = 0
    /\ cache = <<>>
    /\ rcache = {}
    /\ invoked = <<>>
    /\ results = <<>>
    /\ failures = 0
    /\ outcome = Running

CallerIdle == hist = <<>> /\ last = <<>> /\ pass = <<>>

Init ==
    /\ ns \in NsSet
    /\ world \in WorldSet
    /\ pc = "start"
    /\ repos = <<>>
    /\ directories = <<>>
    /\ cwd = 0
    /\ cache = <<>>
    /\ rcache = {}
    /\ invoked = <<>>
    /\ results = <<>>
    /\ failures = 0
    /\ outcome = Running
    /\ ParserIdle
    /\ CallerIdle

Proc ==
    [cwd |-> cwd, cache |-> cache, rcache |-> rcache, invoked |-> invoked,
     failures |-> failures, exc |-> "none"]

Commit(m) ==
    /\ cwd' = m.cwd
    /\ cache' = m.cache
    /\ rcache' = m.rcache
    /\ invoked' = m.invoked
    /\ failures' = m.failures

\* an action's loop is over: main returns None, or the exception leaves it
EndWith(st) ==
    /\ Commit(st.m)
    /\ results' = st.out
    /\ pc' = "done"
    /\ outcome' = Finish(st.m.exc)

Start == [m |-> Proc, out |-> <<>>]

\* lines 336-378
MainSelect ==
    /\ pc = "start"
    /\ IF ns.next /\ ns.repo # <<>>
       THEN /\ pc' = "stopped"
            /\ outcome' = Returned(1)
            /\ UNCHANGED <<repos, cwd, cache, rcache, invoked, failures>>
       ELSE \E x \in {SelectRepos(Proc, world, ns)} :
                /\ Commit(x.m)
                /\ repos' = x.out
                /\ pc' = IF x.m.exc = "none" THEN "match" ELSE "stopped"
                /\ outcome' = IF x.m.exc = "none" THEN outcome ELSE Finish(x.m.exc)
    /\ UNCHANGED <<ns, world, directories, results, pvars, hvars>>

\* case "list"
ActionList ==
    /\ pc = "match"
    /\ ns.action = "list"
    /\ IF ListFlagsInvalid(ns)
       THEN /\ pc' = "done"
            /\ outcome' = IF VerbosityLoggerError(1) = "none" THEN Returned(1)
                          ELSE Raised(VerbosityLoggerError(1))
            /\ UNCHANGED <<directories, cwd, cache, rcache, invoked, failures, results>>
       ELSE /\ directories' = ListDirectories(ns, world, repos)
            /\ \E st \in {ListLoop(Start, world, ns, directories', 1)} : EndWith(st)
    /\ UNCHANGED <<ns, world, repos, pvars, hvars>>

\* case "status"
ActionStatus ==
    /\ pc = "match"
    /\ ns.action = "status"
    /\ \E st \in {StatusLoop(Start, world, ns, repos, 1)} : EndWith(st)
    /\ UNCHANGED <<ns, world, repos, directories, pvars, hvars>>

\* case "diff"
ActionDiff ==
    /\ pc = "match"
    /\ ns.action = "diff"
    /\ \E st \in {DiffActionLoop(Start, world, ns, repos, 1)} : EndWith(st)
    /\ UNCHANGED <<ns, world, repos, directories, pvars, hvars>>

\* case "reset"
ActionReset ==
    /\ pc = "match"
    /\ ns.action = "reset"
    /\ \E st \in {SimpleLoop(Start, world, ns, repos, 1, "reset")} : EndWith(st)
    /\ UNCHANGED <<ns, world, repos, directories, pvars, hvars>>

\* case "pull"
ActionPull ==
    /\ pc = "match"
    /\ ns.action = "pull"
    /\ \E st \in {SimpleLoop(Start, world, ns, repos, 1, "pull")} : EndWith(st)
    /\ UNCHANGED <<ns, world, repos, directories, pvars, hvars>>

\* case "push"
ActionPush ==
    /\ pc = "match"
    /\ ns.action = "push"
    /\ \E st \in {SimpleLoop(Start, world, ns, repos, 1, "push")} : EndWith(st)
    /\ UNCHANGED <<ns, world, repos, directories, pvars, hvars>>

\* case _: "branch", and no action at all
ActionOther ==
    /\ pc = "match"
    /\ ns.action \in {"branch", "none"}
    /\ pc' = "done"
    /\ outcome' = Raised("NotImplementedError")
    /\ UNCHANGED <<ns, world, repos, directories, cwd, cache, rcache, invoked,
                   failures, results, pvars, hvars>>

Next ==
    \/ MainSelect
    \/ ActionList
    \/ ActionStatus
    \/ ActionDiff
    \/ ActionReset
    \/ ActionPull
    \/ ActionPush
    \/ ActionOther

Spec == Init /\ [][Next]_vars

(***************************************************************************)
(* Properties of main (Spec).                                              *)
(***************************************************************************)
Ended == pc \in {"stopped", "done"}

LoopActions == {"status", "diff", "pull", "push", "reset"}

AllRepositories == \A i \in 1..Len(repos) : world.kind[repos[i]] = "repo"

\* the external command of the action has run in entry e
Ran(e) ==
    \E k \in 1..Len(invoked) : invoked[k] = <<ns.action, Join(ns.working_dir, e)>>

\* C4: in the loops of status, diff, pull, push and reset, a repository
\* whose git command exits non-zero gets an empty or False result, and the
\* command is still run, in list order, in every repository after it.
C4_FailureKeepsLooping ==
    (pc = "done" /\ ns.action \in LoopActions /\ AllRepositories)
        => \A i \in 1..Len(repos) :
              (world.scen[repos[i]] = "fail" /\ Ran(repos[i]))
                 => /\ \A k \in 1..Len(results) :
                          results[k].repo = repos[i] => ~results[k].full
                    /\ \A j \in (i + 1)..Len(repos) : Ran(repos[j])

\* git parses everywhere, every entry is a repository, the working
\* directory is given as an absolute path and is $HOME/projects
Healthy ==
    /\ ns.working_dir = "abs"
    /\ world.homeIsWd
    /\ \A e \in Entries : world.kind[e] = "repo" /\ world.scen[e] # "badstat"

InvalidFlags ==
    \/ ns.next /\ ns.repo # <<>>
    \/ ns.action = "list" /\ ListFlagsInvalid(ns)

\* C5: an invalid flag combination makes main return 1, and no external
\* command has run on any repository by then (stated for the healthy
\* worlds, where nothing else can end main).
C5_InvalidFlagsAbortFirst ==
    (Ended /\ InvalidFlags /\ Healthy) => (outcome = Returned(1) /\ invoked = <<>>)

DefaultEnumeration == ns.repo = <<>> /\ ~world.has_repos

IsRepo(e) == world.kind[e] = "repo"

\* C6: unless the repositories are named by -r or by the config file, or
\* non-repositories are asked for with list -N, everything selected, listed,
\* queried in the working directory and acted on is a directory of the
\* working directory that holds .git.
C6_OnlyRepositories ==
    (DefaultEnumeration /\ pc # "start")
        => /\ \A i \in 1..Len(repos) : IsRepo(repos[i])
           /\ ~ns.non_repos
                 => /\ \A i \in 1..Len(directories) : IsRepo(directories[i])
                    /\ \A i \in 1..Len(results) : IsRepo(results[i].repo)
                    /\ \A i \in 1..Len(invoked) : IsRepo(invoked[i][2].name)

\* an action has run over the enumeration of a working directory that
\* holds a repository and a directory without .git
C6_Witness ==
    /\ pc = "done"
    /\ DefaultEnumeration
    /\ ~ns.non_repos
    /\ outcome = Returned(0)
    /\ results # <<>>
    /\ invoked # <<>>
    /\ \E e \in Entries : world.kind[e] = "dir"

\* C7: with -D the first diff-stat line that fails to parse ends the process
\* with exit code 1 and nothing after it is parsed; without -D the same
\* failure never ends the process.
C7_DebugExitsOnlyUnderDebug ==
    (Ended /\ failures > 0)
        => IF ns.debug
           THEN outcome.kind \in {"exit", "raise"} /\ outcome.code = 1 /\ failures = 1
           ELSE outcome.kind = "return"

\* C8: whatever the action (list, status, pull, push, diff, reset, branch,
\* none), main ends by returning an exit code: no exception leaves it
\* (stated for the healthy worlds).
C8_MainAlwaysReturns ==
    (Ended /\ Healthy) => outcome.kind = "return"

\* the status query at <working_dir>/e returns at least one record
HasChanges(e) ==
    /\ world.kind[e] = "repo"
    /\ \E r \in {GitStatusFiles(ScenarioOut(world.scen[e]), ns.show_untracked,
                                ns.debug)} :
          r.exc = "none" /\ r.value # <<>>

\* the first repository with changes, in selection order: a set of one
\* repository, or empty
FirstChanged ==
    LET rs == ChosenRepos(ns, world)
        idx == {i \in 1..Len(rs) : HasChanges(rs[i])}
    IN  IF idx = {} THEN {}
        ELSE {rs[CHOOSE i \in idx : \A j \in idx : i <= j]}

\* the repositories the action's loop has been applied to
Applied == {results[k].repo : k \in 1..Len(results)}

\* C11: with -n the action is applied to at most one repository, and that
\* repository is the first one, in selection order, whose status query at
\* <working_dir>/<repo> returns at least one record (stated for the healthy
\* worlds, where $HOME/projects is the working directory).
C11_NextIsFirstChanged ==
    (pc = "done" /\ ns.next /\ ns.action \in LoopActions /\ Healthy)
        => Applied \subseteq FirstChanged

(***************************************************************************)
(* Inputs of the parsers.  A short-status line is written from its parts   *)
(* (leading blanks, status code, separator, path) and a binary diff-stat   *)
(* line from its path and sizes, so that what the line says is known       *)
(* apart from what the parser makes of it.                                 *)
(***************************************************************************)
SeqsUpTo(S, n) == UNION {[1..m -> S] : m \in 0..n}

SetupPy == <<"s", "e", "t", "u", "p", ".", "p", "y">>

StatusLineOf(src) == src.lead \o src.code \o src.sep \o src.path

StatusSrcSet ==
    { [lead |-> <<" ">>, code |-> <<"M">>, sep |-> <<" ", " ">>, path |-> SetupPy],
      [lead |-> <<" ">>, code |-> <<"M">>, sep |-> <<" ">>, path |-> <<"f">>],
      [lead |-> <<>>, code |-> <<"M", "M">>, sep |-> <<" ">>, path |-> <<"f">>],
      [lead |-> <<>>, code |-> Untracked, sep |-> <<" ">>, path |-> <<"g">>] }

BinLineOf(path, old, new) ==
    <<" ">> \o path \o <<" ", "|", " ", "B", "i", "n", " ">> \o old
        \o <<" ", "-", ">", " ">> \o new \o <<" ", "b", "y", "t", "e", "s">>

\* kind: "bin" a binary size change, "int" a plain change count, "bad" a
\* change field that is neither, "summary" a line without '|'.  oldv and newv
\* are the sizes the texts old and new of a "bin" line denote.
BinSrc(path, old, oldv, new, newv) ==
    [kind |-> "bin", path |-> path, oldv |-> oldv, newv |-> newv,
     text |-> BinLineOf(path, old, new)]

RawSrc(kind, path, text) ==
    [kind |-> kind, path |-> path, oldv |-> 0, newv |-> 0, text |-> text]

StatSrcSet ==
    { BinSrc(<<"g">>, <<"1", "0", "0">>, 100, <<"2", "0", "0">>, 200),
      BinSrc(<<"g">>, <<"3">>, 3, <<"1">>, 1),
      BinSrc(<<"f", "|", "g">>, <<"1", "0", "0">>, 100, <<"2", "0", "0">>, 200),
      RawSrc("int", <<"f">>, <<" ", "f", " ", "|", " ", "2", " ", "+", "-">>),
      RawSrc("bad", <<"f">>,
             <<" ", "f", " ", "|", " ", "U", "n", "m", "e", "r", "g", "e", "d">>),
      RawSrc("bad", <<"g">>, <<" ", "g", " ", "|", " ", "B", "i", "n">>),
      RawSrc("summary", <<>>,
             <<" ", "1", " ", "f", "i", "l", "e", " ", "c", "h", "a", "n", "g", "e", "d">>) }

\* what the two subprocesses of git_status_files gave, for input a
OutOf(a) ==
    [status_rc |-> a.status_rc,
     status_lines |-> [k \in 1..Len(a.status_src) |-> StatusLineOf(a.status_src[k])],
     stat_rc |-> a.stat_rc,
     stat_lines |-> [k \in 1..Len(a.stat_src) |-> a.stat_src[k].text]]

(***************************************************************************)
(* SpecStatus: git_status_files applied once to one input.                 *)
(***************************************************************************)
InitStatus ==
    /\ arg \in [status_src : SeqsUpTo(StatusSrcSet, MaxStatusLines),
                stat_src : SeqsUpTo(StatSrcSet, MaxStatLines),
                status_rc : {0, 1}, stat_rc : {0, 1},
                show_untracked : BOOLEAN, debug : BOOLEAN]
    /\ ret = NoRet
    /\ called = FALSE
    /\ MainIdle
    /\ CallerIdle

CallGitStatusFiles ==
    /\ pc = "idle"
    /\ ~called
    /\ ret' = GitStatusFiles(OutOf(arg), arg.show_untracked, arg.debug)
    /\ called' = TRUE
    /\ UNCHANGED <<arg, mvars, hvars>>

NextStatus == CallGitStatusFiles

SpecStatus == InitStatus /\ [][NextStatus]_vars

(***************************************************************************)
(* Properties of git_status_files (SpecStatus).                            *)
(***************************************************************************)
HasPipe(path) == Contains(path, "|")

\* line k's path is named again by a later line the parser takes up
NamedLater(k) ==
    \E j \in (k + 1)..Len(arg.stat_src) :
        j \in ret.parsed /\ arg.stat_src[j].path = arg.stat_src[k].path

NoUntrackedLine ==
    \A k \in 1..Len(arg.status_src) : arg.status_src[k].code # Untracked

\* C1: every well-formed short-status line (code, separator whitespace,
\* path) comes back as a record holding exactly that code and that path,
\* the path without surrounding whitespace.
C1_StatusRecordsExact ==
    (called /\ ret.exc = "none" /\ arg.status_rc = 0 /\ NoUntrackedLine)
        => /\ Len(ret.value) = Len(arg.status_src)
           /\ \A k \in 1..Len(arg.status_src) :
                 /\ ret.value[k].status = arg.status_src[k].code
                 /\ ret.value[k].file_path = arg.status_src[k].path

\* C2: with debug off, a diff-stat line with '|' whose change field is
\* neither an integer nor a well-formed Bin entry is logged, its file gets
\* NaN, every later diff-stat line is still parsed and the function returns
\* its status records without an exception.
C2_MalformedLineRecovered ==
    (called /\ ~arg.debug /\ arg.stat_rc = 0)
        => \A k \in 1..Len(arg.stat_src) :
              arg.stat_src[k].kind = "bad"
                 => /\ ret.exc = "none"
                    /\ ret.logged > 0
                    /\ k \in ret.failed
                    /\ ~NamedLater(k) => DictGet(ret.diff_stat, arg.stat_src[k].path,
                                                 IntDelta(0)) = NaN
                    /\ \A j \in (k + 1)..Len(arg.stat_src) :
                          (arg.stat_src[j].kind # "summary"
                             /\ ~HasPipe(arg.stat_src[j].path)) => j \in ret.parsed

BodyLineSet ==
    { [marker |-> "@", text |-> <<"@", "@", " ", "-", "1", " ", "+", "1", " ", "@", "@">>],
      [marker |-> "+", text |-> <<"+", " ", "x">>],
      [marker |-> "+", text |-> <<"+", "x">>],
      [marker |-> "-", text |-> <<"-", " ", "y">>],
      [marker |-> "-", text |-> <<"-", "y">>],
      [marker |-> " ", text |-> <<" ", "z">>] }

DiffPathSet == {<<"f">>, <<"g">>}

APath(path) == <<"a", "/">> \o path

SectionLines(sec) ==
    << DiffGit \o <<" ">> \o APath(sec.path) \o <<" ", "b", "/">> \o sec.path,
       <<"-", "-", "-", " ">> \o APath(sec.path),
       <<"+", "+", "+", " ", "b", "/">> \o sec.path >>
        \o [k \in 1..Len(sec.body) |-> sec.body[k].text]

RECURSIVE DiffLines(_)
DiffLines(secs) ==
    IF secs = <<>> THEN <<>> ELSE SectionLines(Head(secs)) \o DiffLines(Tail(secs))

SectionSet == [path : DiffPathSet, body : SeqsUpTo(BodyLineSet, MaxBodyLines)]

DiffInputs ==
    { secs \in SeqsUpTo(SectionSet, MaxSections) :
         \A i, j \in 1..Len(secs) : i # j => secs[i].path # secs[j].path }

InitDiff ==
    /\ arg \in [rc : {0, 1}, sections : DiffInputs]
    /\ ret = NoRet
    /\ called = FALSE
    /\ MainIdle
    /\ CallerIdle

CallGitDiff ==
    /\ pc = "idle"
    /\ ~called
    /\ ret' = GitDiff(arg.rc, DiffLines(arg.sections))
    /\ called' = TRUE
    /\ UNCHANGED <<arg, mvars, hvars>>

NextDiff == CallGitDiff

SpecDiff == InitDiff /\ [][NextDiff]_vars

\* the content of a body line: what follows its marker, stripped
RECURSIVE ChangeEntries(_)
ChangeEntries(body) ==
    IF body = <<>> THEN <<>>
    ELSE LET b == Head(body)
             content == IF b.marker = "@" THEN SubSeq(b.text, 3, Len(b.text))
                        ELSE Tail(b.text)
         IN  IF b.marker \in {"@", "+", "-"}
             THEN <<(<<b.marker, Strip(content)>>)>> \o ChangeEntries(Tail(body))
             ELSE ChangeEntries(Tail(body))

\* C3: git_diff returns one entry per file section, keyed by the section's
\* path, holding in input order exactly the section's hunk headers ('@'),
\* added lines ('+') and removed lines ('-').
C3_DiffEntriesComplete ==
    (called /\ arg.rc = 0)
        => /\ ret.exc = "none"
           /\ DOMAIN ret.value = {APath(arg.sections[i].path) : i \in 1..Len(arg.sections)}
           /\ \A i \in 1..Len(arg.sections) :
                 ret.value[APath(arg.sections[i].path)]
                    = ChangeEntries(arg.sections[i].body)

(***************************************************************************)
(* SpecCache: one process calls git_status_files over a list of            *)
(* repositories, pass after pass as main does (the -C pass, then the       *)
(* action's pass), each pass with its own flags, while the first           *)
(* repository may change under it.  A raised exception is caught by the    *)
(* caller, who goes on.                                                    *)
(***************************************************************************)
FlagSet == BOOLEAN \X BOOLEAN       \* <<show_untracked, debug>>

CacheScenarios == {"untracked", "clean", "badstat"}

\* few repositories under every flag and a changing repository; as many
\* repositories as the cache holds, and one more, under the default flags
PlanSet ==
    { [n |-> k, flags |-> FlagSet, mayChange |-> TRUE] : k \in 1..MaxCacheRepos }
    \cup { [n |-> k, flags |-> {<<FALSE, FALSE>>}, mayChange |-> FALSE] :
           k \in {CacheMaxSize, CacheMaxSize + 1} }

NoHistory ==
    [runs |-> 0, stored |-> FALSE, first |-> <<>>, seen |-> "", reruns |-> 0]

InitCache ==
    /\ ParserIdle
    /\ \E plan \in PlanSet, sc \in CacheScenarios, f \in FlagSet :
          /\ f \in plan.flags
          /\ ns = plan
          /\ repos = [e \in 1..plan.n |-> e]
          /\ world = [kind |-> [e \in 1..plan.n |-> "repo"],
                      scen |-> [e \in 1..plan.n |-> IF e = 1 THEN sc ELSE "changed"],
                      has_repos |-> FALSE, config_repos |-> ConfigRepos,
                      homeIsWd |-> TRUE]
          /\ pass = [no |-> 1, idx |-> 1, u |-> f[1], d |-> f[2], changes |-> 0]
    /\ pc = "cache"
    /\ directories = <<>>
    /\ cwd = 0
    /\ cache = <<>>
    /\ rcache = {}
    /\ invoked = <<>>
    /\ results = <<>>
    /\ failures = 0
    /\ outcome = Running
    /\ hist = <<>>
    /\ last = <<>>

\* the history of a key after one more call of it
\* (seen: what the repository was like when the first call returned)
Recorded(old, ran, exc, value, sc) ==
    [runs |-> old.runs + (IF ran THEN 1 ELSE 0),
     stored |-> old.stored \/ exc = "none",
     first |-> IF ~old.stored /\ exc = "none" THEN value ELSE old.first,
     seen |-> IF ~old.stored /\ exc = "none" THEN sc ELSE old.seen,
     reruns |-> old.reruns + (IF old.stored /\ ran THEN 1 ELSE 0)]

\* git_status_files(repo_path, show_untracked, debug) on the next repository
CacheCall ==
    /\ pc = "cache"
    /\ pass.idx <= Len(repos)
    /\ \E path \in {Join("abs", repos[pass.idx])} :
       \E c \in {CachedStatus(Proc, world, path, pass.u, pass.d)} :
          LET key == <<path, pass.u, pass.d>>
              ran == Len(c.m.invoked) > Len(invoked)
              old == IF key \in DOMAIN hist THEN hist[key] ELSE NoHistory
              sc == world.scen[path.name]
          IN  /\ Commit(c.m)
              /\ hist' = [k \in DOMAIN hist \cup {key} |->
                             IF k = key THEN Recorded(old, ran, c.m.exc, c.value, sc)
                             ELSE hist[k]]
              /\ last' = [key |-> key, ran |-> ran, exc |-> c.m.exc,
                          value |-> c.value, again |-> old.stored, scen |-> sc]
    /\ pass' = [pass EXCEPT !.idx = @ + 1]
    /\ UNCHANGED <<ns, world, pc, repos, directories, results, outcome, pvars>>

\* the list is through: the next pass starts, with flags of its own
NextPass ==
    /\ pc = "cache"
    /\ pass.idx > Len(repos)
    /\ pass.no < MaxPasses
    /\ \E f \in ns.flags :
          pass' = [pass EXCEPT !.no = @ + 1, !.idx = 1, !.u = f[1], !.d = f[2]]
    /\ UNCHANGED <<pvars, mvars, hist, last>>

\* somebody edits, commits or breaks the first repository
RepoChanges ==
    /\ pc = "cache"
    /\ ns.mayChange
    /\ pass.changes < MaxChanges
    /\ \E sc \in CacheScenarios \ {world.scen[1]} :
          world' = [world EXCEPT !.scen[1] = sc]
    /\ pass' = [pass EXCEPT !.changes = @ + 1]
    /\ UNCHANGED <<pvars, ns, pc, repos, directories, cwd, cache, rcache,
                   invoked, results, failures, outcome, hist, last>>

NextCache == CacheCall \/ NextPass \/ RepoChanges

SpecCache == InitCache /\ [][NextCache]_vars

(***************************************************************************)
(* Properties of the cache (SpecCache).                                    *)
(***************************************************************************)
\* every key called so far ran its commands, and never again once a call
\* of it had returned; a call of such a key runs nothing and returns what
\* the first call returned
ServedFromFirstCall ==
    /\ \A key \in DOMAIN hist : hist[key].runs >= 1 /\ hist[key].reruns = 0
    /\ (last # <<>> /\ last.again)
          => /\ ~last.ran
             /\ last.exc = "none"
             /\ last.value = hist[last.key].first

\* C10 as the specification states it: within one process the commands of
\* git_status_files run at most once per (path, show_untracked, debug); once
\* a call has returned, every later call with the same key runs nothing and
\* returns the first result, even if the repository has changed; different
\* paths or flags are queried independently.
C10_CachedForProcessLifetime ==
    pc = "cache" => ServedFromFirstCall

\* C10, amended: the same, as long as the process has called
\* git_status_files with no more keys than the cache holds (128).
C10_CachedWithinCapacity ==
    (pc = "cache" /\ Cardinality(DOMAIN hist) <= CacheMaxSize)
        => ServedFromFirstCall

\* C10's case: the repository had an untracked file when the first call
\* with the key returned and was clean when the latest call with the same
\* key was made, which ran nothing and returned the earlier, non-empty list
C10_Witness ==
    /\ pc = "cache"
    /\ last # <<>>
    /\ last.again
    /\ ~last.ran
    /\ hist[last.key].seen = "untracked"
    /\ last.scen = "clean"
    /\ last.value # <<>>
    /\ last.value = hist[last.key].first

=============================================================================
